---- MODULE Spec2Model ----
(***************************************************************************)
(* The treasury review pipeline: AITreasurySystem.process_transaction      *)
(* (src/crewai.py) and the five rule tools of src/tool.py.                 *)
(*                                                                         *)
(* Text is a sequence of one-character strings, so that lower-casing and   *)
(* the `in' substring test of the tools are computed, not assumed.         *)
(* Money is counted in pence (amount * 100): every threshold of the tools  *)
(* is a whole number of pounds, and amounts carry at most two decimals.    *)
(* The additive risk score is an IEEE-754 double, modelled exactly (see    *)
(* Lit, FAdd).                                                             *)
(***************************************************************************)
EXTENDS Integers, Sequences, FiniteSets, TLC

VARIABLES
    pc,        \* position inside process_transaction
    request,   \* the dictionary as the caller passed it
    txn,       \* the caller's transaction_data dictionary, as it is now
    results,   \* stage name -> that stage's result, for the stages that returned
    trail,     \* the start / complete lines process_transaction has printed
    final,     \* process_transaction's return value, once returned
    clock,     \* the wall clock read by datetime.now()
    tool,      \* a direct tool call: the tool's name and its arguments
    ret,       \* what that call returned
    log        \* the calls made before, oldest first: arguments and return value

vars == <<pc, request, txn, results, trail, final, clock, tool, ret, log>>

(***************************************************************************)
(* Text                                                                    *)
(***************************************************************************)
UpperCase == <<"A","B","C","D","E","F","G","H","I","J","K","L","M","N","O","P","Q","R","S","T","U","V","W","X","Y","Z">>
LowerCase == <<"a","b","c","d","e","f","g","h","i","j","k","l","m","n","o","p","q","r","s","t","u","v","w","x","y","z">>

LowerTable ==
    [c \in {UpperCase[i] : i \in 1..26} |->
        LowerCase[CHOOSE i \in 1..26 : UpperCase[i] = c]]

\* str.lower() on one character
LowerChar(c) == IF c \in DOMAIN LowerTable THEN LowerTable[c] ELSE c

\* str.lower()
lower(s) == [i \in 1..Len(s) |-> LowerChar(s[i])]

\* Python's `kw in text' on strings
IsSubstring(kw, text) ==
    \E i \in 1..(Len(text) - Len(kw) + 1) : SubSeq(text, i, i + Len(kw) - 1) = kw

\* any(kw in text for kw in kws)
AnyIn(kws, text) == \E i \in 1..Len(kws) : IsSubstring(kws[i], text)

\* Pounds to pence.
GBP(pounds) == pounds * 100

(***************************************************************************)
(* IEEE-754 doubles in [0, 2), exactly.  The double with value v is the    *)
(* pair (k, e) with v = (k * 2^57 + e) / (25 * 2^59): k counts hundredths  *)
(* and e is the representation error of the decimal, in units of           *)
(* 2^-59 / 25.  Every double here is a multiple of 2^-59, and e stays far  *)
(* below 2^57, so pairs compare lexicographically.                         *)
(***************************************************************************)
RECURSIVE Pow2(_)
Pow2(n) == IF n = 0 THEN 1 ELSE 2 * Pow2(n - 1)

RECURSIVE Pow2Mod25(_)
Pow2Mod25(n) == IF n = 0 THEN 1 ELSE (2 * Pow2Mod25(n - 1)) % 25

FGe(a, b) == a.k > b.k \/ (a.k = b.k /\ a.e >= b.e)
FLt(a, b) == ~FGe(a, b)

\* The binade of x: its unit in the last place is 25 * 2^j units.
Binade(x) ==
    LET ge(k0) == x.k > k0 \/ (x.k = k0 /\ x.e >= 0)
    IN  IF ge(100) THEN 7
        ELSE IF ge(50) THEN 6
        ELSE IF ge(25) THEN 5
        ELSE IF x.k >= 13 THEN 4
        ELSE IF x.k >= 7 THEN 3
        ELSE IF x.k >= 4 THEN 2
        ELSE IF x.k >= 2 THEN 1
        ELSE 0

\* (k * 2^57 + e) mod (25 * 2^j)
Residue(x, j) ==
    (Pow2(j) * (((x.k % 25) * Pow2Mod25(57 - j)) % 25) + x.e) % (25 * Pow2(j))

\* Round an exact value to the nearest double, ties to even.
FRound(x) ==
    IF x.k = 0 /\ x.e = 0 THEN x
    ELSE LET j == Binade(x)
             m == 25 * Pow2(j)
             r == Residue(x, j)
             down == [k |-> x.k, e |-> x.e - r]
             up == [k |-> x.k, e |-> x.e + m - r]
         IN  IF 2 * r < m THEN down
             ELSE IF 2 * r > m THEN up
             ELSE IF Residue(x, j + 1) >= m THEN up ELSE down

\* The double a decimal literal with two places denotes: Lit(25) is 0.25.
Lit(hundredths) == FRound([k |-> hundredths, e |-> 0])

\* a + b on doubles
FAdd(a, b) == FRound([k |-> a.k + b.k, e |-> a.e + b.e])

\* min(a, b) on doubles
FMin(a, b) == IF FLt(b, a) THEN b ELSE a

\* round(x, 2), in hundredths: e is far smaller than half a hundredth.
Round2(x) == x.k

(***************************************************************************)
(* datetime.fromisoformat, for the forms YYYY-MM-DD, YYYY-MM-DD_HH,        *)
(* YYYY-MM-DD_HH:MM and YYYY-MM-DD_HH:MM:SS with an optional .fff or       *)
(* .ffffff (_ is any one character, usually T).  Other text raises         *)
(* ValueError, which the tools catch.                                      *)
(***************************************************************************)
Digits == <<"0","1","2","3","4","5","6","7","8","9">>

IsDigit(c) == \E i \in 1..10 : Digits[i] = c

DigitVal(c) == (CHOOSE i \in 1..10 : Digits[i] = c) - 1

\* int() of the digit run text[from..to]; -1 when it is not all digits
RECURSIVE Number(_, _, _)
Number(text, from, to) ==
    IF from > to THEN 0
    ELSE IF ~IsDigit(text[to]) THEN -1
    ELSE LET rest == Number(text, from, to - 1)
         IN  IF rest < 0 THEN -1 ELSE rest * 10 + DigitVal(text[to])

IsLeap(y) == (y % 4 = 0) /\ ((y % 100 # 0) \/ (y % 400 = 0))

DaysInMonth(y, m) ==
    IF m = 2 THEN (IF IsLeap(y) THEN 29 ELSE 28)
    ELSE IF m \in {4, 6, 9, 11} THEN 30 ELSE 31

RECURSIVE DaysBeforeMonth(_, _)
DaysBeforeMonth(y, m) ==
    IF m = 1 THEN 0 ELSE DaysBeforeMonth(y, m - 1) + DaysInMonth(y, m - 1)

\* date.weekday(): 0 is Monday, 6 is Sunday
Weekday(y, m, d) ==
    LET y1 == y - 1
        ordinal == y1 * 365 + (y1 \div 4) - (y1 \div 100) + (y1 \div 400)
                   + DaysBeforeMonth(y, m) + d
    IN  (ordinal + 6) % 7

ParseError == [ok |-> FALSE, hour |-> 0, weekday |-> 0]

fromisoformat(text) ==
    LET n == Len(text)
        year == Number(text, 1, 4)
        month == Number(text, 6, 7)
        day == Number(text, 9, 10)
        hour == IF n >= 13 THEN Number(text, 12, 13) ELSE 0
        minute == IF n >= 16 THEN Number(text, 15, 16) ELSE 0
        second == IF n >= 19 THEN Number(text, 18, 19) ELSE 0
        fraction == IF n >= 23 THEN Number(text, 21, n) ELSE 0
    IN  IF n \notin {10, 13, 16, 19, 23, 26} THEN ParseError
        ELSE IF text[5] # "-" \/ text[8] # "-" THEN ParseError
        ELSE IF n >= 16 /\ text[14] # ":" THEN ParseError
        ELSE IF n >= 19 /\ text[17] # ":" THEN ParseError
        ELSE IF n >= 23 /\ text[20] # "." THEN ParseError
        ELSE IF year < 1 \/ month < 1 \/ month > 12 \/ day < 1 THEN ParseError
        ELSE IF day > DaysInMonth(year, month) THEN ParseError
        ELSE IF hour < 0 \/ hour > 23 \/ minute < 0 \/ minute > 59 THEN ParseError
        ELSE IF second < 0 \/ second > 59 \/ fraction < 0 THEN ParseError
        ELSE [ok |-> TRUE, hour |-> hour, weekday |-> Weekday(year, month, day)]

(***************************************************************************)
(* 1. IntentAnalysisTool._run                                              *)
(***************************************************************************)
\* The keyword table, in the dictionary's insertion order.
intent_keywords == <<
    [intent |-> "refund",
     keywords |-> << <<"r","e","f","u","n","d">>, <<"r","e","t","u","r","n">>, <<"r","e","i","m","b","u","r","s","e","m","e","n","t">>, <<"r","e","v","e","r","s","a","l">> >>],
    [intent |-> "payroll",
     keywords |-> << <<"s","a","l","a","r","y">>, <<"w","a","g","e">>, <<"p","a","y","r","o","l","l">>, <<"c","o","m","p","e","n","s","a","t","i","o","n">>, <<"b","o","n","u","s">> >>],
    [intent |-> "vendor",
     keywords |-> << <<"v","e","n","d","o","r">>, <<"s","u","p","p","l","i","e","r">>, <<"i","n","v","o","i","c","e">>, <<"p","a","y","m","e","n","t">>, <<"p","u","r","c","h","a","s","e">> >>],
    [intent |-> "investment",
     keywords |-> << <<"i","n","v","e","s","t","m","e","n","t">>, <<"e","q","u","i","t","y">>, <<"a","c","q","u","i","s","i","t","i","o","n">>, <<"s","t","a","k","e">> >>],
    [intent |-> "emergency",
     keywords |-> << <<"u","r","g","e","n","t">>, <<"e","m","e","r","g","e","n","c","y">>, <<"c","r","i","t","i","c","a","l">>, <<"i","m","m","e","d","i","a","t","e">> >>],
    [intent |-> "tax",
     keywords |-> << <<"t","a","x">>, <<"v","a","t">>, <<"h","m","r","c">>, <<"d","u","t","y">> >>],
    [intent |-> "loan",
     keywords |-> << <<"l","o","a","n">>, <<"c","r","e","d","i","t">>, <<"f","i","n","a","n","c","i","n","g">>, <<"b","o","r","r","o","w","i","n","g">> >> ] >>

urgency_keywords ==
    << <<"u","r","g","e","n","t">>, <<"e","m","e","r","g","e","n","c","y">>, <<"i","m","m","e","d","i","a","t","e">>, <<"a","s","a","p">>, <<"c","r","i","t","i","c","a","l">> >>

\* [kw for kw in keywords if kw in purpose_lower]
Matches(keywords, purpose_lower) ==
    SelectSeq(keywords, LAMBDA kw : IsSubstring(kw, purpose_lower))

\* DetectIntent reporting the hits of every category.
DetectIntent_AllHits(purpose_lower) ==
    LET hits == {i \in 1..Len(intent_keywords) :
                    Matches(intent_keywords[i].keywords, purpose_lower) # <<>>}
        all == [i \in 1..Len(intent_keywords) |-> intent_keywords[i].keywords]
    IN  IF hits = {}
        THEN [intent |-> "general", matched_keywords |-> <<>>]
        ELSE LET first == CHOOSE i \in hits : \A j \in hits : i <= j
             IN  [intent |-> intent_keywords[first].intent,
                  matched_keywords |->
                      Matches(all[1] \o all[2] \o all[3] \o all[4] \o all[5]
                                  \o all[6] \o all[7], purpose_lower)]

\* DetectIntent taking the last category with a match.
DetectIntent_Last(purpose_lower) ==
    LET hits == {i \in 1..Len(intent_keywords) :
                    Matches(intent_keywords[i].keywords, purpose_lower) # <<>>}
    IN  IF hits = {}
        THEN [intent |-> "general", matched_keywords |-> <<>>]
        ELSE LET last == CHOOSE i \in hits : \A j \in hits : i >= j
             IN  [intent |-> intent_keywords[last].intent,
                  matched_keywords |->
                      Matches(intent_keywords[last].keywords, purpose_lower)]

\* The loop over intent_keywords: the first category with a match, and its matches.
DetectIntent(purpose_lower) ==
    LET hits == {i \in 1..Len(intent_keywords) :
                    Matches(intent_keywords[i].keywords, purpose_lower) # <<>>}
    IN  IF hits = {}
        THEN [intent |-> "general", matched_keywords |-> <<>>]
        ELSE LET first == CHOOSE i \in hits : \A j \in hits : i <= j
             IN  [intent |-> intent_keywords[first].intent,
                  matched_keywords |->
                      Matches(intent_keywords[first].keywords, purpose_lower)]

\* Urgency with the keyword rule applied after the amount rule.
Urgency_KeywordLast(amount, purpose_lower) ==
    LET by_amount == IF amount > GBP(50000) THEN "high"
                     ELSE IF amount < GBP(1000) THEN "low" ELSE "medium"
    IN  IF AnyIn(urgency_keywords, purpose_lower) THEN "high" ELSE by_amount

Urgency(amount, purpose_lower) ==
    LET by_keyword == IF AnyIn(urgency_keywords, purpose_lower) THEN "high" ELSE "medium"
    IN  IF amount > GBP(50000) THEN "high"
        ELSE IF amount < GBP(1000) THEN "low"
        ELSE by_keyword

\* Confidence without the override for the general intent.
Confidence_NoOverride(detected) ==
    IF detected.matched_keywords # <<>> THEN 95 ELSE 60

\* In hundredths: 0.95, 0.60, 0.50.
Confidence(detected) ==
    LET by_match == IF detected.matched_keywords # <<>> THEN 95 ELSE 60
    IN  IF detected.intent = "general" THEN 50 ELSE by_match

\* The try / except around the timing check.  The bare except catches whatever
\* the parse raises, so nothing leaves the block: raised is whether _run ends
\* by raising instead of returning.
IntentTiming(timestamp) ==
    LET tx_time == fromisoformat(timestamp)
    IN  IF tx_time.ok
        THEN [is_off_hours |-> tx_time.hour < 6 \/ tx_time.hour > 22, raised |-> FALSE]
        ELSE [is_off_hours |-> FALSE, raised |-> FALSE]

\* AmountCategory with the medium bucket starting at 5000 itself.
AmountCategory_FromFiveThousand(amount) ==
    IF amount > GBP(25000) THEN "high"
    ELSE IF amount >= GBP(5000) THEN "medium"
    ELSE "low"

AmountCategory(amount) ==
    IF amount > GBP(25000) THEN "high"
    ELSE IF amount > GBP(5000) THEN "medium"
    ELSE "low"

IntentAnalysis(amount, sender, receiver, purpose, timestamp, now) ==
    LET purpose_lower == lower(purpose)
        detected == DetectIntent(purpose_lower)
    IN  [intent |-> detected.intent,
         urgency |-> Urgency(amount, purpose_lower),
         confidence |-> Confidence(detected),
         matched_keywords |-> detected.matched_keywords,
         is_off_hours |-> IntentTiming(timestamp).is_off_hours,
         amount_category |-> AmountCategory(amount),
         analysis_timestamp |-> now]

(***************************************************************************)
(* 2. RiskAssessmentTool._run                                              *)
(* Each rule yields the contributions it makes, in the order the code      *)
(* makes them: a weight in hundredths and the tag appended to risk_factors.*)
(***************************************************************************)
Factor(weight, tag) == [weight |-> weight, tag |-> tag]

\* AmountRisk with every tier the amount is over firing.
AmountRisk_Cumulative(amount) ==
    (IF amount > GBP(100000) THEN << Factor(25, "very_high_amount") >> ELSE <<>>)
    \o (IF amount > GBP(50000) THEN << Factor(15, "high_amount") >> ELSE <<>>)
    \o (IF amount > GBP(25000) THEN << Factor(8, "elevated_amount") >> ELSE <<>>)

\* AmountRisk with the top tier starting at 100000 itself.
AmountRisk_AtOrAbove(amount) ==
    IF amount >= GBP(100000) THEN << Factor(25, "very_high_amount") >>
    ELSE IF amount > GBP(50000) THEN << Factor(15, "high_amount") >>
    ELSE IF amount > GBP(25000) THEN << Factor(8, "elevated_amount") >>
    ELSE <<>>

AmountRisk(amount) ==
    IF amount > GBP(100000) THEN << Factor(25, "very_high_amount") >>
    ELSE IF amount > GBP(50000) THEN << Factor(15, "high_amount") >>
    ELSE IF amount > GBP(25000) THEN << Factor(8, "elevated_amount") >>
    ELSE <<>>

\* RiskTiming without the except clause: a failed parse leaves _run by raising.
RiskTiming_NoExcept(timestamp) ==
    LET tx_time == fromisoformat(timestamp)
    IN  IF tx_time.ok
        THEN [factors |->
                  (IF tx_time.hour < 6 \/ tx_time.hour > 22
                   THEN << Factor(12, "off_hours_transaction") >> ELSE <<>>)
                  \o
                  (IF tx_time.weekday >= 5
                   THEN << Factor(8, "weekend_transaction") >> ELSE <<>>),
              raised |-> FALSE]
        ELSE [factors |-> <<>>, raised |-> TRUE]

\* RiskTiming with Sunday as the only weekend day.
RiskTiming_SundayOnly(timestamp) ==
    LET tx_time == fromisoformat(timestamp)
    IN  IF tx_time.ok
        THEN [factors |->
                  (IF tx_time.hour < 6 \/ tx_time.hour > 22
                   THEN << Factor(12, "off_hours_transaction") >> ELSE <<>>)
                  \o
                  (IF tx_time.weekday >= 6
                   THEN << Factor(8, "weekend_transaction") >> ELSE <<>>),
              raised |-> FALSE]
        ELSE [factors |-> << Factor(5, "invalid_timestamp") >>, raised |-> FALSE]

\* The try / except: a timestamp that does not parse adds the flat penalty only,
\* and the bare except lets nothing out (raised as in IntentTiming).
RiskTiming(timestamp) ==
    LET tx_time == fromisoformat(timestamp)
    IN  IF tx_time.ok
        THEN [factors |->
                  (IF tx_time.hour < 6 \/ tx_time.hour > 22
                   THEN << Factor(12, "off_hours_transaction") >> ELSE <<>>)
                  \o
                  (IF tx_time.weekday >= 5
                   THEN << Factor(8, "weekend_transaction") >> ELSE <<>>),
              raised |-> FALSE]
        ELSE [factors |-> << Factor(5, "invalid_timestamp") >>, raised |-> FALSE]

TimeRisk(timestamp) == RiskTiming(timestamp).factors

suspicious_patterns == << <<"u","n","k","n","o","w","n">>, <<"t","e","m","p">>, <<"t","e","s","t">>, <<"c","a","s","h">>, <<"p","e","r","s","o","n","a","l">> >>

ReceiverRisk(receiver) ==
    IF AnyIn(suspicious_patterns, lower(receiver))
    THEN << Factor(20, "suspicious_receiver") >> ELSE <<>>

SenderHistoryRisk(sender_history) ==
    IF lower(sender_history) = <<"u","n","k","n","o","w","n">>
    THEN << Factor(10, "unknown_sender_history") >>
    ELSE IF IsSubstring(<<"n","e","w">>, lower(sender_history))
    THEN << Factor(8, "new_sender") >>
    ELSE <<>>

high_risk_intents == {"emergency", "general", "loan"}

IntentRisk(intent) ==
    IF intent \in high_risk_intents
    THEN << Factor(10, CASE intent = "emergency" -> "high_risk_intent_emergency"
                         [] intent = "general" -> "high_risk_intent_general"
                         [] intent = "loan" -> "high_risk_intent_loan") >>
    ELSE <<>>

RoundAmountRisk(amount) ==
    IF amount % GBP(10000) = 0 /\ amount >= GBP(10000)
    THEN << Factor(5, "suspicious_round_amount") >> ELSE <<>>

\* risk_score = 0.0, then += each weight in turn, in double arithmetic
RECURSIVE SumWeights(_)
SumWeights(factors) ==
    IF factors = <<>> THEN Lit(0)
    ELSE FAdd(SumWeights(SubSeq(factors, 1, Len(factors) - 1)),
              Lit(factors[Len(factors)].weight))

\* risk_score = min(risk_score, 1.0)
CapScore(score) == FMin(score, Lit(100))

RiskLevel(score) ==
    IF FLt(score, Lit(25)) THEN "low"
    ELSE IF FLt(score, Lit(50)) THEN "medium"
    ELSE IF FLt(score, Lit(75)) THEN "high"
    ELSE "critical"

Recommendation(score) ==
    IF FGe(score, Lit(75)) THEN "REJECT - Too risky"
    ELSE IF FGe(score, Lit(50)) THEN "ESCALATE - Human review required"
    ELSE IF FGe(score, Lit(25)) THEN "PROCEED - Acceptable risk"
    ELSE "APPROVE - Low risk"

\* ReportScore as a percentage.
ReportScore_Percent(score) == Round2(score) * 100

\* "risk_score": round(risk_score, 2), in hundredths
ReportScore(score) == Round2(score)

\* RiskFactors with the receiver rule applied first.
RiskFactors_ReceiverFirst(amount, receiver, intent, timestamp, sender_history) ==
    ReceiverRisk(receiver) \o AmountRisk(amount) \o TimeRisk(timestamp)
        \o SenderHistoryRisk(sender_history) \o IntentRisk(intent)
        \o RoundAmountRisk(amount)

RiskFactors(amount, receiver, intent, timestamp, sender_history) ==
    AmountRisk(amount) \o TimeRisk(timestamp) \o ReceiverRisk(receiver)
        \o SenderHistoryRisk(sender_history) \o IntentRisk(intent)
        \o RoundAmountRisk(amount)

RiskAssessment(amount, sender, receiver, intent, timestamp, sender_history, now) ==
    LET fired == RiskFactors(amount, receiver, intent, timestamp, sender_history)
        risk_score == CapScore(SumWeights(fired))
    IN  [risk_score |-> ReportScore(risk_score),
         risk_level |-> RiskLevel(risk_score),
         risk_factors |-> [i \in 1..Len(fired) |-> fired[i].tag],
         risk_factor_count |-> Len(fired),
         requires_additional_review |-> FGe(risk_score, Lit(50)),
         assessment_timestamp |-> now,
         recommendation |-> Recommendation(risk_score)]

(***************************************************************************)
(* 3. PolicyValidationTool._run                                            *)
(***************************************************************************)
spending_limits ==
    [refund |-> GBP(15000), vendor |-> GBP(30000), payroll |-> GBP(150000),
     investment |-> GBP(100000), emergency |-> GBP(50000), tax |-> GBP(200000),
     loan |-> GBP(75000), general |-> GBP(5000)]

\* spending_limits.get(intent, spending_limits["general"])
ApplicableLimit(intent) ==
    IF intent \in DOMAIN spending_limits
    THEN spending_limits[intent] ELSE spending_limits["general"]

blocked_keywords == << <<"s","a","n","c","t","i","o","n","e","d">>, <<"b","l","a","c","k","l","i","s","t">>, <<"b","l","o","c","k","e","d">> >>

policy_daily_limit == GBP(200000)

SpendingLimitViolation(intent, limit, amount) ==
    << "Exceeds spending limit", intent, limit, amount >>

ManagementViolation == << "Requires management pre-approval for amounts over 10,000" >>
DirectorViolation == << "Requires director authorization for amounts over 50,000" >>
DualAuthViolation ==
    << "Requires dual authorization (two signatures) for amounts over 100,000" >>
BlockedReceiverViolation == << "Receiver is on blocked/sanctioned list" >>
DailyLimitViolation == << "Exceeds daily transaction limit", policy_daily_limit >>

PostAuditWarning ==
    "High urgency + high amount transactions require post-payment audit"
AmlKycWarning ==
    "Transaction requires AML/KYC documentation per regulatory requirements"

\* One check that fired: violations.append(...) and policy_passed = False.
Check(violation) == [violation |-> violation, policy_passed |-> FALSE]

\* SpendingLimitCheck firing at the limit itself.
SpendingLimitCheck_AtLimit(amount, intent) ==
    IF amount >= ApplicableLimit(intent)
    THEN << Check(SpendingLimitViolation(intent, ApplicableLimit(intent), amount)) >>
    ELSE <<>>

\* SpendingLimitCheck comparing whole pounds.
SpendingLimitCheck_WholePounds(amount, intent) ==
    IF amount \div 100 > ApplicableLimit(intent) \div 100
    THEN << Check(SpendingLimitViolation(intent, ApplicableLimit(intent), amount)) >>
    ELSE <<>>

SpendingLimitCheck(amount, intent) ==
    IF amount > ApplicableLimit(intent)
    THEN << Check(SpendingLimitViolation(intent, ApplicableLimit(intent), amount)) >>
    ELSE <<>>

ManagementCheck(amount, sender) ==
    IF amount > GBP(10000) /\ ~IsSubstring(<<"a","p","p","r","o","v","e","d">>, lower(sender))
                           /\ ~IsSubstring(<<"m","a","n","a","g","e","r">>, lower(sender))
    THEN << Check(ManagementViolation) >> ELSE <<>>

DirectorCheck(amount, sender) ==
    IF amount > GBP(50000) /\ ~IsSubstring(<<"d","i","r","e","c","t","o","r">>, lower(sender))
    THEN << Check(DirectorViolation) >> ELSE <<>>

\* DualAuthCheck without its `policy_passed = False'.
DualAuthCheck_KeepsFlag(amount) ==
    IF amount > GBP(100000)
    THEN << [violation |-> DualAuthViolation, policy_passed |-> TRUE] >> ELSE <<>>

DualAuthCheck(amount) ==
    IF amount > GBP(100000) THEN << Check(DualAuthViolation) >> ELSE <<>>

ReceiverCheck(receiver) ==
    IF AnyIn(blocked_keywords, lower(receiver))
    THEN << Check(BlockedReceiverViolation) >> ELSE <<>>

DailyLimitCheck(amount) ==
    IF amount > policy_daily_limit THEN << Check(DailyLimitViolation) >> ELSE <<>>

\* The checks that fired, in the order of the code.
FiredChecks(amount, intent, sender, receiver) ==
    SpendingLimitCheck(amount, intent) \o ManagementCheck(amount, sender)
        \o DirectorCheck(amount, sender) \o DualAuthCheck(amount)
        \o ReceiverCheck(receiver) \o DailyLimitCheck(amount)

PolicyWarnings(amount, urgency) ==
    (IF urgency = "high" /\ amount > GBP(25000) THEN << PostAuditWarning >> ELSE <<>>)
    \o
    (IF amount > GBP(10000) THEN << AmlKycWarning >> ELSE <<>>)

PolicyValidation(amount, intent, sender, receiver, urgency, now) ==
    LET fired == FiredChecks(amount, intent, sender, receiver)
        warnings == PolicyWarnings(amount, urgency)
        \* policy_passed = True, then whatever the checks that fired assigned
        policy_passed == \A i \in 1..Len(fired) : fired[i].policy_passed
    IN  [policy_passed |-> policy_passed,
         violations |-> [i \in 1..Len(fired) |-> fired[i].violation],
         warnings |-> warnings,
         applicable_limit |-> ApplicableLimit(intent),
         amount_within_limit |-> amount <= ApplicableLimit(intent),
         approval_level_required |->
             IF amount > GBP(100000) THEN "dual_authorization"
             ELSE IF amount > GBP(50000) THEN "director"
             ELSE IF amount > GBP(10000) THEN "manager"
             ELSE "standard",
         validation_timestamp |-> now,
         compliance_score |->
             IF policy_passed /\ warnings = <<>> THEN 100
             ELSE IF policy_passed /\ warnings # <<>> THEN 70
             ELSE 0]

(***************************************************************************)
(* 4. LiquidityCheckTool._run                                              *)
(***************************************************************************)
account_balances ==
    [primary |-> GBP(180000), reserve |-> GBP(50000),
     payroll |-> GBP(200000), operations |-> GBP(75000)]

\* The amounts of the liquidity calls made before, on one account or on all.
RECURSIVE LoggedAmount(_, _)
LoggedAmount(n, accounts) ==
    IF n = 0 THEN 0
    ELSE LoggedAmount(n - 1, accounts)
         + (IF log[n].call.name = "liquidity" /\ log[n].call.account_id \in accounts
            THEN log[n].call.amount ELSE 0)

\* CurrentBalance on a ledger the earlier calls were debited from.
CurrentBalance_Debited(account_id) ==
    (IF account_id \in DOMAIN account_balances
     THEN account_balances[account_id] ELSE GBP(150000))
    - LoggedAmount(Len(log), {account_id})

\* account_balances.get(account_id, 150000)
CurrentBalance(account_id) ==
    IF account_id \in DOMAIN account_balances
    THEN account_balances[account_id] ELSE GBP(150000)

minimum_reserve == GBP(25000)
\* daily_transaction_limit above the monthly budget.
daily_transaction_limit_Raised == GBP(200000)

daily_transaction_limit == GBP(75000)
\* monthly_budget_remaining less what the earlier calls asked for.
monthly_budget_remaining_Spent ==
    GBP(150000)
        - LoggedAmount(Len(log), {"primary", "reserve", "payroll", "operations", "escrow"})

monthly_budget_remaining == GBP(150000)

LiquidityCheck(amount, account_id, intent, now) ==
    LET current_balance == CurrentBalance(account_id)
        remaining_balance == current_balance - amount
        sufficient_funds == remaining_balance >= minimum_reserve
        within_daily_limit == amount <= daily_transaction_limit
        within_budget == amount <= monthly_budget_remaining
    IN  [sufficient_funds |-> sufficient_funds,
         financially_viable |-> sufficient_funds /\ within_daily_limit /\ within_budget,
         current_balance |-> current_balance,
         remaining_balance |-> remaining_balance,
         minimum_reserve |-> minimum_reserve,
         reserve_cushion |->
             IF sufficient_funds THEN remaining_balance - minimum_reserve ELSE 0,
         daily_limit |-> daily_transaction_limit,
         within_daily_limit |-> within_daily_limit,
         monthly_budget_remaining |-> monthly_budget_remaining,
         within_budget |-> within_budget,
         warnings |->
             (IF 10 * remaining_balance < 12 * minimum_reserve
              THEN << "Balance would fall close to minimum reserve threshold" >>
              ELSE <<>>)
             \o
             (IF 2 * amount > current_balance
              THEN << "Transaction represents >50% of available balance" >>
              ELSE <<>>),
         concerns |->
             (IF remaining_balance < minimum_reserve
              THEN << "Transaction would breach minimum reserve requirement" >>
              ELSE <<>>)
             \o
             (IF ~within_daily_limit
              THEN << "Exceeds daily transaction limit" >> ELSE <<>>),
         cash_flow_impact |->
             IF intent = "emergency" THEN "high_priority"
             ELSE IF amount > GBP(50000) THEN "significant"
             ELSE IF amount > GBP(10000) THEN "moderate"
             ELSE "minimal",
         liquidity_health |->
             IF remaining_balance > minimum_reserve * 3 THEN "excellent"
             ELSE IF remaining_balance > minimum_reserve * 2 THEN "good"
             ELSE IF sufficient_funds THEN "adequate"
             ELSE "insufficient",
         check_timestamp |-> now]

(***************************************************************************)
(* 5. The final decision.  No code computes it: the decision stage hands   *)
(* the four results to a language-model agent, and the rules it is to      *)
(* apply are the priority-ordered ones of the design (reject, then         *)
(* escalate, then approve).  Every violation the policy tool records       *)
(* clears policy_passed, so each is blocking.  What counts as a "low"      *)
(* confidence is not fixed; the lowest value the classifier returns, 0.50, *)
(* may be read either way, so the rules allow two decisions there.         *)
(***************************************************************************)
DecisionEngine(intent_result, risk_result, policy_result, treasury_result) ==
    IF \/ risk_result.risk_level \in {"high", "critical"}
       \/ ~policy_result.policy_passed
       \/ ~treasury_result.financially_viable
    THEN {"reject"}
    ELSE IF risk_result.risk_level = "medium" THEN {"escalate"}
    ELSE IF intent_result.confidence <= 50 THEN {"escalate", "approve"}
    ELSE {"approve"}

(***************************************************************************)
(* 6. AuditLogTool._run                                                    *)
(***************************************************************************)
\* json.dumps({"tx_id": ..., "decision": ..., "timestamp": ...}, sort_keys=True):
\* the three values, in the order of their keys.
HashPayload(transaction_id, decision, now) == << decision, now, transaction_id >>

\* hash() of a string: within one process equal strings give equal values and
\* the value depends on nothing but the string.
hash(text) == [hash_of |-> text]

\* json.loads, for the texts passed here: a string, or an object whose members
\* are strings and objects, with blanks between the tokens.  (Numbers, arrays
\* and the literals are not recognised; no text passed here has them.)
Ch(text, i) == IF i >= 1 /\ i <= Len(text) THEN text[i] ELSE ""

RECURSIVE SkipSpace(_, _)
SkipSpace(text, i) == IF Ch(text, i) = " " THEN SkipSpace(text, i + 1) ELSE i

\* The position after the closing quote of a string that opened before i,
\* 0 when it is never closed.
RECURSIVE StringEnd(_, _)
StringEnd(text, i) ==
    IF i > Len(text) THEN 0
    ELSE IF text[i] = "\"" THEN i + 1
    ELSE StringEnd(text, i + 1)

\* The position after the value, or after the members and the closing brace,
\* that start at i; 0 when there is a syntax error.
RECURSIVE JsonValue(_, _), JsonMembers(_, _)
JsonValue(text, i) ==
    IF Ch(text, i) = "\"" THEN StringEnd(text, i + 1)
    ELSE IF Ch(text, i) = "{"
    THEN LET j == SkipSpace(text, i + 1)
         IN  IF Ch(text, j) = "}" THEN j + 1 ELSE JsonMembers(text, j)
    ELSE 0

JsonMembers(text, i) ==
    LET key == IF Ch(text, i) = "\"" THEN StringEnd(text, i + 1) ELSE 0
        colon == SkipSpace(text, key)
        value == IF key # 0 /\ Ch(text, colon) = ":"
                 THEN JsonValue(text, SkipSpace(text, colon + 1)) ELSE 0
        next == SkipSpace(text, value)
    IN  IF value = 0 THEN 0
        ELSE IF Ch(text, next) = "," THEN JsonMembers(text, SkipSpace(text, next + 1))
        ELSE IF Ch(text, next) = "}" THEN next + 1
        ELSE 0

\* Whether json.loads(text) returns a value instead of raising.
json_loads_ok(text) ==
    LET end == JsonValue(text, SkipSpace(text, 1))
    IN  end # 0 /\ SkipSpace(text, end) = Len(text) + 1

\* An agent_outputs argument is a str, [text |-> its characters], or a dict,
\* a record of another shape.
IsStr(agent_outputs) == DOMAIN agent_outputs = {"text"}

\* ParseOutputs with no except clause: a text that is not JSON makes _run raise.
ParseOutputs_NoExcept(agent_outputs) ==
    IF ~IsStr(agent_outputs)
    THEN [outputs_dict |-> agent_outputs, raised |-> FALSE]
    ELSE IF json_loads_ok(agent_outputs.text)
    THEN [outputs_dict |-> [json |-> agent_outputs.text], raised |-> FALSE]
    ELSE [outputs_dict |-> [json |-> agent_outputs.text], raised |-> TRUE]

\* The try / except around json.loads: a dict is taken as it is, a text that
\* parses becomes the parsed value (kept here as its JSON text), any other
\* text is wrapped as {"raw": text}; the bare except lets nothing out.
ParseOutputs(agent_outputs) ==
    IF ~IsStr(agent_outputs)
    THEN [outputs_dict |-> agent_outputs, raised |-> FALSE]
    ELSE IF json_loads_ok(agent_outputs.text)
    THEN [outputs_dict |-> [json |-> agent_outputs.text], raised |-> FALSE]
    ELSE [outputs_dict |-> [raw |-> agent_outputs.text], raised |-> FALSE]

\* str(outputs_dict), as far as it is text: the repr of a parsed value is its
\* JSON text with single quotes for double ones, that of the wrapped text has
\* the text inside.  Of a dict passed as such only the keys are known here.
SingleQuoted(text) == [i \in 1..Len(text) |-> IF text[i] = "\"" THEN "'" ELSE text[i]]

\* word in str(outputs_dict); word is a stage name, as a key and as text.
InStr(word, outputs_dict) ==
    IF "json" \in DOMAIN outputs_dict
    THEN IsSubstring(word.text, SingleQuoted(outputs_dict.json))
    ELSE IF "raw" \in DOMAIN outputs_dict
    THEN IsSubstring(word.text, <<"{","'","r","a","w","'",":"," ","'">> \o outputs_dict.raw \o <<"'","}">>)
    ELSE word.key \in DOMAIN outputs_dict

\* now1 and now2 are the two readings of datetime.now(): the record's
\* timestamp, and the one inside the hashed payload.
AuditRecord(transaction_id, decision, agent_outputs, rationale, now1, now2) ==
    LET outputs_dict == ParseOutputs(agent_outputs).outputs_dict
    IN  [audit_id |-> << "AUDIT-", transaction_id >>,
         transaction_id |-> transaction_id,
         timestamp |-> now1,
         decision |-> decision,
         decision_maker |-> "AI Treasury System",
         rationale |-> rationale,
         agent_outputs |-> outputs_dict,
         audit_trail |->
             [intent_analysis_completed |->
                  InStr([key |-> "intent", text |-> <<"i","n","t","e","n","t">>], outputs_dict),
              risk_assessment_completed |->
                  InStr([key |-> "risk", text |-> <<"r","i","s","k">>], outputs_dict),
              policy_validation_completed |->
                  InStr([key |-> "policy", text |-> <<"p","o","l","i","c","y">>], outputs_dict),
              liquidity_check_completed |->
                  InStr([key |-> "treasury", text |-> <<"t","r","e","a","s","u","r","y">>], outputs_dict),
              final_decision_made |-> decision \in {"APPROVE", "REJECT", "ESCALATE"}],
         compliance_flags |->
             [complete_audit_trail |-> TRUE,
              all_agents_consulted |-> TRUE,
              decision_documented |-> rationale # "",
              timestamp_recorded |-> TRUE],
         verification_hash |-> hash(HashPayload(transaction_id, decision, now2))]

AuditLog(transaction_id, decision, agent_outputs, rationale, now1, now2) ==
    LET audit_record ==
            AuditRecord(transaction_id, decision, agent_outputs, rationale, now1, now2)
    IN  [audit_logged |-> TRUE,
         audit_id |-> audit_record.audit_id,
         record_timestamp |-> audit_record.timestamp,
         verification_hash |-> audit_record.verification_hash,
         storage_location |-> "immutable_audit_database",
         compliance_status |-> "COMPLIANT",
         record_retrievable |-> TRUE]
(***************************************************************************)
(* The wall clock.  datetime.now() reads it; it only moves forward.        *)
(***************************************************************************)
MaxClock == 1

TwoDigits(n) == << Digits[(n \div 10) + 1], Digits[(n % 10) + 1] >>

\* datetime.now().isoformat() at clock value c: Monday 5 January 2026 10:00,
\* then five days and thirteen hours later at each tick.
NowText(c) ==
    <<"2","0","2","6","-","0","1","-">> \o TwoDigits(5 + 5 * c) \o <<"T">> \o TwoDigits((10 + 13 * c) % 24)
        \o <<":","0","0",":","0","0",".","0","0","0","0","0","1">>

Tick ==
    /\ clock < MaxClock
    /\ clock' = clock + 1
    /\ UNCHANGED <<pc, txn, request, results, trail, final, tool, ret, log>>

(***************************************************************************)
(* The requests process_transaction is called with.                        *)
(***************************************************************************)
PurposeExample == <<"V","e","n","d","o","r"," ","p","a","y","m","e","n","t"," ","f","o","r"," ","Q","1"," ","s","u","p","p","l","i","e","s"," ","i","n","v","o","i","c","e"," ","#","4","5","2","1">>
PurposeVendor == <<"V","e","n","d","o","r"," ","p","a","y","m","e","n","t"," ","f","o","r"," ","Q","1"," ","s","u","p","p","l","i","e","s"," ","i","n","v","o","i","c","e">>
PurposeRefund == <<"U","r","g","e","n","t"," ","r","e","f","u","n","d"," ","f","o","r"," ","c","a","n","c","e","l","l","e","d"," ","e","n","t","e","r","p","r","i","s","e"," ","c","o","n","t","r","a","c","t">>
PurposeParty == <<"O","f","f","i","c","e"," ","s","u","m","m","e","r"," ","p","a","r","t","y">>
PurposeLoan == <<"E","m","e","r","g","e","n","c","y"," ","b","r","i","d","g","i","n","g"," ","l","o","a","n">>
PurposeVat == <<"H","M","R","C"," ","V","A","T"," ","r","e","t","u","r","n"," ","Q","4">>
PurposeBonus == <<"S","t","a","f","f"," ","B","O","N","U","S"," ","p","a","y","m","e","n","t">>

SenderOperations == <<"C","o","m","p","a","n","y"," ","O","p","e","r","a","t","i","o","n","s">>
SenderService == <<"C","u","s","t","o","m","e","r"," ","S","e","r","v","i","c","e">>
SenderApproved == <<"A","p","p","r","o","v","e","d"," ","V","e","n","d","o","r"," ","D","e","s","k">>
SenderManager == <<"F","i","n","a","n","c","e"," ","M","a","n","a","g","e","r">>
SenderDirector == <<"M","a","n","a","g","i","n","g"," ","D","i","r","e","c","t","o","r">>
SenderBoard == <<"D","i","r","e","c","t","o","r"," ","a","n","d"," ","A","p","p","r","o","v","e","d"," ","M","a","n","a","g","e","r">>

ReceiverAcme == <<"A","c","m","e"," ","S","u","p","p","l","i","e","s"," ","L","t","d">>
ReceiverClient == <<"P","r","e","m","i","u","m"," ","C","l","i","e","n","t"," ","C","o","r","p">>
ReceiverCash == <<"T","e","m","p"," ","C","a","s","h"," ","A","c","c","o","u","n","t">>
ReceiverBlocked == <<"S","a","n","c","t","i","o","n","e","d"," ","E","n","t","i","t","y">>

SaturdayNight == <<"2","0","2","6","-","0","1","-","0","3","T","0","0",":","3","0",":","0","0">>
SundayNight == <<"2","0","2","6","-","0","1","-","0","4","T","0","0",":","3","0",":","0","0">>
MondayNight == <<"2","0","2","6","-","0","1","-","0","5","T","0","0",":","3","0",":","0","0">>
SaturdayAfternoon == <<"2","0","2","6","-","0","1","-","0","3","T","1","4",":","1","5",":","0","0">>
WednesdayAfternoon == <<"2","0","2","6","-","0","1","-","0","7","T","1","4",":","1","5",":","0","0">>
NotADate == <<"n","o","t","-","a","-","d","a","t","e">>
BadDay == <<"2","0","2","6","-","0","2","-","3","0","T","1","0",":","0","0",":","0","0">>
BadHour == <<"2","0","2","6","-","0","1","-","0","5","T","2","4",":","0","0",":","0","0">>

HistoryNew == <<"N","e","w"," ","c","u","s","t","o","m","e","r">>
HistoryUnknown == <<"U","N","K","N","O","W","N">>
HistoryEstablished == <<"e","s","t","a","b","l","i","s","h","e","d">>

RequestAmounts == {GBP(-100), GBP(7500), GBP(45000), GBP(110000)}
RequestPurposes == {PurposeVendor, PurposeRefund, PurposeParty}
RequestSenders == {SenderOperations, SenderService}
RequestReceivers == {ReceiverAcme, ReceiverCash}
RequestTimestamps == {SaturdayNight, SundayNight, MondayNight, SaturdayAfternoon, NotADate}

\* The optional keys of the dictionary: each is there or not.
Optional(key, values) == {<<>>} \cup {key :> v : v \in values}

Requests ==
    {base @@ ts @@ id @@ hist :
        base \in [amount : RequestAmounts, sender : RequestSenders,
                  receiver : RequestReceivers, purpose : RequestPurposes,
                  account_id : {"primary"}],
        ts \in Optional("timestamp", RequestTimestamps),
        id \in Optional("transaction_id", {"TXN-20260103-001"}),
        hist \in Optional("sender_history", {HistoryNew})}

\* dict.get(key, default)
Get(dict, key, default) == IF key \in DOMAIN dict THEN dict[key] ELSE default

(***************************************************************************)
(* AITreasurySystem.process_transaction                                    *)
(***************************************************************************)
\* NextPc with the policy stage moved ahead of the risk stage.
NextPc_PolicyFirst(p) ==
    CASE p = "idle" -> "intent"
      [] p = "intent" -> "policy"
      [] p = "policy" -> "risk"
      [] p = "risk" -> "treasury"
      [] p = "treasury" -> "decision"
      [] p = "decision" -> "audit"
      [] p = "audit" -> "return"
      [] p = "return" -> "done"

\* Where control goes next: the statements of process_transaction in order.
NextPc(p) ==
    CASE p = "idle" -> "intent"
      [] p = "intent" -> "risk"
      [] p = "risk" -> "policy"
      [] p = "policy" -> "treasury"
      [] p = "treasury" -> "decision"
      [] p = "decision" -> "audit"
      [] p = "audit" -> "return"
      [] p = "return" -> "done"

\* The earlier results a stage's task is created with.
StageContext(stage) ==
    CASE stage = "intent" -> {}
      [] stage = "risk" -> {"intent"}
      [] stage = "policy" -> {"intent"}
      [] stage = "treasury" -> {}
      [] stage = "decision" -> {"intent", "risk", "policy", "treasury"}
      [] stage = "audit" -> {"intent", "risk", "policy", "treasury", "decision"}

\* What a stage leaves behind: its result, and the two lines it prints.
Complete(stage, result) ==
    /\ results' = results @@ (stage :> result)
    /\ trail' = Append(trail, [stage |-> stage, context |-> StageContext(stage)])
    /\ pc' = NextPc(stage)

\* Call with a validating entry: a negative amount or a missing timestamp
\* ends the call before stage 1.
Call_Validating ==
    /\ pc = "idle"
    /\ txn' = txn
    /\ pc' = IF txn.amount < 0 \/ "timestamp" \notin DOMAIN txn
             THEN "failed" ELSE NextPc("idle")
    /\ UNCHANGED <<request, results, trail, final, clock, tool, ret, log>>

\* Call stamping every record, whether or not it has a timestamp.
Call_Restamping ==
    /\ pc = "idle"
    /\ txn' = [k \in DOMAIN txn \cup {"timestamp"} |->
                   IF k = "timestamp" THEN NowText(clock) ELSE txn[k]]
    /\ pc' = NextPc("idle")
    /\ UNCHANGED <<request, results, trail, final, clock, tool, ret, log>>

\* The entry of process_transaction: a missing timestamp is filled in.
Call ==
    /\ pc = "idle"
    /\ txn' = IF "timestamp" \notin DOMAIN txn
              THEN txn @@ ("timestamp" :> NowText(clock)) ELSE txn
    /\ pc' = NextPc("idle")
    /\ UNCHANGED <<request, results, trail, final, clock, tool, ret, log>>

IntentStage ==
    /\ pc = "intent"
    /\ Complete("intent",
                IntentAnalysis(txn.amount, txn.sender, txn.receiver, txn.purpose,
                               txn.timestamp, clock))
    /\ UNCHANGED <<txn, request, final, clock, tool, ret, log>>

RiskStage ==
    /\ pc = "risk"
    /\ Complete("risk",
                RiskAssessment(txn.amount, txn.sender, txn.receiver,
                               results["intent"].intent, txn.timestamp,
                               Get(txn, "sender_history", <<"u","n","k","n","o","w","n">>), clock))
    /\ UNCHANGED <<txn, request, final, clock, tool, ret, log>>

PolicyStage ==
    /\ pc = "policy"
    /\ Complete("policy",
                PolicyValidation(txn.amount, results["intent"].intent, txn.sender,
                                 txn.receiver, results["intent"].urgency, clock))
    /\ UNCHANGED <<txn, request, final, clock, tool, ret, log>>

\* The treasury task is created from the transaction alone.
TreasuryStage ==
    /\ pc = "treasury"
    /\ Complete("treasury",
                LiquidityCheck(txn.amount, Get(txn, "account_id", "primary"),
                               "general", clock))
    /\ UNCHANGED <<txn, request, final, clock, tool, ret, log>>

DecisionStage ==
    /\ pc = "decision"
    /\ \E decision \in DecisionEngine(results["intent"], results["risk"],
                                      results["policy"], results["treasury"]) :
           Complete("decision", [decision |-> decision])
    /\ UNCHANGED <<txn, request, final, clock, tool, ret, log>>

\* The audit tool reads the clock twice: for the record and inside the hash.
AuditStage ==
    /\ pc = "audit"
    /\ \E later \in clock..MaxClock :
           /\ Complete("audit",
                       AuditLog(Get(txn, "transaction_id", "TXN-001"),
                                results["decision"].decision,
                                [s \in StageContext("audit") |-> results[s]],
                                "decision rationale", clock, later))
           /\ clock' = later
    /\ UNCHANGED <<txn, request, final, tool, ret, log>>

\* final_output is compiled and returned.
Return ==
    /\ pc = "return"
    /\ final' = [transaction_id |-> Get(txn, "transaction_id", "TXN-001"),
                 timestamp |-> NowText(clock),
                 input |-> txn,
                 agent_outputs |-> [s \in StageContext("audit") |-> results[s]],
                 final_decision |-> results["decision"].decision,
                 audit_reference |-> results["audit"]]
    /\ pc' = NextPc("return")
    /\ UNCHANGED <<txn, request, results, trail, clock, tool, ret, log>>

NoCall == [name |-> "none"]

Init ==
    /\ pc = "idle"
    /\ request \in Requests
    /\ txn = request
    /\ results = <<>>
    /\ trail = <<>>
    /\ final = <<>>
    /\ clock = 0
    /\ tool = NoCall
    /\ ret = NoCall
    /\ log = <<>>

Next ==
    \/ Call
    \/ IntentStage
    \/ RiskStage
    \/ PolicyStage
    \/ TreasuryStage
    \/ DecisionStage
    \/ AuditStage
    \/ Return
    \/ Tick

Spec == Init /\ [][Next]_vars

(***************************************************************************)
(* The tools called on their own, each with arguments drawn from the       *)
(* values around every threshold of the rules.                             *)
(***************************************************************************)
ToolAmounts ==
    {GBP(-1), 0, GBP(1000) - 1, GBP(1000), GBP(5000), GBP(5000) + 1,
     GBP(7500), GBP(10000), GBP(10000) + 1, GBP(15000), GBP(15000) + 1,
     GBP(20000), GBP(25000), GBP(25000) + 1, GBP(30000), GBP(30000) + 1,
     GBP(45000), GBP(50000), GBP(50000) + 1, GBP(75000), GBP(75000) + 1,
     GBP(100000) - 1, GBP(100000), GBP(100000) + 1, GBP(110000),
     GBP(150000), GBP(150000) + 1, GBP(200000), GBP(200000) + 1,
     GBP(250000)}

TableIntents ==
    {"refund", "vendor", "payroll", "investment", "emergency", "tax", "loan", "general"}

ToolTimestamps ==
    {SaturdayNight, SundayNight, MondayNight, SaturdayAfternoon, WednesdayAfternoon,
     NotADate, BadDay, BadHour}

IntentCalls ==
    [name : {"intent"}, amount : ToolAmounts, sender : {SenderOperations},
     receiver : {ReceiverAcme},
     purpose : {PurposeVendor, PurposeRefund, PurposeParty, PurposeLoan,
                PurposeVat, PurposeBonus},
     timestamp : ToolTimestamps]

RiskCalls ==
    [name : {"risk"}, amount : ToolAmounts, sender : {SenderOperations},
     receiver : {ReceiverAcme, ReceiverCash},
     intent : {"vendor", "general", "emergency", "loan"},
     timestamp : ToolTimestamps \ {SundayNight},
     sender_history : {<<"u","n","k","n","o","w","n">>, HistoryUnknown, HistoryNew, HistoryEstablished}]

PolicyCalls ==
    [name : {"policy"}, amount : ToolAmounts, intent : TableIntents \cup {"transfer"},
     sender : {SenderOperations, SenderApproved, SenderManager, SenderDirector,
               SenderBoard},
     receiver : {ReceiverAcme, ReceiverBlocked},
     urgency : {"medium", "high"}]

\* The amounts that bring an account to its minimum reserve, besides.
LiquidityToolCalls ==
    [name : {"liquidity"},
     amount : ToolAmounts \cup {GBP(125000), GBP(125000) + 1, GBP(155000),
                                GBP(155000) + 1, GBP(175000), GBP(175000) + 1},
     account_id : {"primary", "reserve", "payroll", "operations", "escrow"},
     intent : {"general", "emergency"}]

\* Two values of agent_outputs that differ in the content of one stage output.
OutputsVendor ==
    [intent |-> "vendor", risk |-> "low", policy |-> "passed",
     treasury |-> "viable", decision |-> "APPROVE"]
OutputsAltered == [OutputsVendor EXCEPT !.risk = "critical"]

\* Texts an agent passes as agent_outputs: JSON with every stage, with a
\* stage missing, with nested objects, cut short, and plain prose.
OutputsJson ==
    <<"{","\"","i","n","t","e","n","t","\"",":"," ","\"","v","e","n","d","o","r","\"",","," ","\"","r","i","s","k","\"",":"," ","\"","l","o","w","\"",","," ","\"","p","o","l","i","c","y","\"",":"," ","\"","p","a","s","s","e","d","\"",","," ","\"","t","r","e","a","s","u","r","y","\"",":"," ","\"","v","i","a","b","l","e","\"","}">>
OutputsNoTreasury == <<"{","\"","i","n","t","e","n","t","\"",":"," ","\"","v","e","n","d","o","r","\"",","," ","\"","r","i","s","k","\"",":"," ","\"","l","o","w","\"",","," ","\"","p","o","l","i","c","y","\"",":"," ","\"","p","a","s","s","e","d","\"","}">>
OutputsNested == <<"{","\"","i","n","t","e","n","t","\"",":"," ","{","\"","i","n","t","e","n","t","\"",":"," ","\"","v","e","n","d","o","r","\"","}",","," ","\"","r","i","s","k","\"",":"," ","{","}","}">>
OutputsTruncated ==
    <<"{","\"","i","n","t","e","n","t","\"",":"," ","\"","v","e","n","d","o","r","\"",","," ","\"","r","i","s","k","\"",":"," ","\"","l","o","w","\"",","," ","\"","p","o","l","i","c","y","\"",":"," ","\"","p","a","s","s","e","d","\"",","," ","\"","t","r","e","a","s","u","r","y","\"",":"," ","\"","v","i","a","b","l","e","\"">>
OutputsProse == <<"r","i","s","k"," ","w","a","s"," ","l","o","w">>

AuditToolCalls ==
    [name : {"audit"}, transaction_id : {"TXN-20260103-001"},
     decision : {"APPROVE", "REJECT", "ESCALATE", "approve", "HOLD"},
     agent_outputs : {[text |-> t] : t \in {OutputsJson, OutputsNoTreasury,
                                            OutputsNested, OutputsTruncated,
                                            OutputsProse}}
                     \cup {OutputsVendor},
     rationale : {"All checks passed", ""}]

\* transaction_1 of main()
ExampleRequest ==
    [transaction_id |-> "TXN-20260103-001", amount |-> GBP(7500),
     sender |-> SenderOperations, receiver |-> ReceiverAcme,
     purpose |-> PurposeExample, timestamp |-> SaturdayNight,
     account_id |-> "primary"]

Returned(name, raised, out) == [name |-> name, raised |-> raised, out |-> out]

RunIntent ==
    /\ tool.name = "intent"
    /\ ret = NoCall
    /\ ret' = Returned("intent", IntentTiming(tool.timestamp).raised,
                       IntentAnalysis(tool.amount, tool.sender, tool.receiver,
                                      tool.purpose, tool.timestamp, clock))
    /\ UNCHANGED <<pc, request, txn, results, trail, final, clock, tool, log>>

RunRisk ==
    /\ tool.name = "risk"
    /\ ret = NoCall
    /\ ret' = Returned("risk", RiskTiming(tool.timestamp).raised,
                       RiskAssessment(tool.amount, tool.sender, tool.receiver,
                                      tool.intent, tool.timestamp,
                                      tool.sender_history, clock))
    /\ UNCHANGED <<pc, request, txn, results, trail, final, clock, tool, log>>

RunPolicy ==
    /\ tool.name = "policy"
    /\ ret = NoCall
    /\ ret' = Returned("policy", FALSE,
                       PolicyValidation(tool.amount, tool.intent, tool.sender,
                                        tool.receiver, tool.urgency, clock))
    /\ UNCHANGED <<pc, request, txn, results, trail, final, clock, tool, log>>

CheckLiquidity ==
    /\ tool.name = "liquidity"
    /\ ret = NoCall
    /\ ret' = Returned("liquidity", FALSE,
                       LiquidityCheck(tool.amount, tool.account_id, tool.intent,
                                      clock))
    /\ UNCHANGED <<pc, request, txn, results, trail, final, clock, tool, log>>

\* AuditLogTool._run reads the clock twice.
CreateAudit ==
    /\ tool.name = "audit"
    /\ ret = NoCall
    /\ \E later \in clock..MaxClock :
           /\ ret' = Returned("audit", ParseOutputs(tool.agent_outputs).raised,
                              AuditLog(tool.transaction_id, tool.decision,
                                       tool.agent_outputs, tool.rationale,
                                       clock, later))
           /\ clock' = later
    /\ UNCHANGED <<pc, request, txn, results, trail, final, tool, log>>

InitTools ==
    /\ pc = "idle"
    /\ request = ExampleRequest
    /\ txn = request
    /\ results = <<>>
    /\ trail = <<>>
    /\ final = <<>>
    /\ clock = 0
    /\ tool \in IntentCalls \cup RiskCalls \cup PolicyCalls \cup LiquidityToolCalls
               \cup AuditToolCalls
    /\ ret = NoCall
    /\ log = <<>>

NextTools ==
    \/ RunIntent
    \/ RunRisk
    \/ RunPolicy
    \/ CheckLiquidity
    \/ CreateAudit
    \/ Tick

SpecTools == InitTools /\ [][NextTools]_vars


(***************************************************************************)
(* The liquidity and audit tools called several times in one process, at   *)
(* any moments, each call with its own arguments; log keeps every call.    *)
(***************************************************************************)
MaxCalls == 2

LiquidityCalls ==
    [name : {"liquidity"},
     amount : {GBP(7500), GBP(60000), GBP(160000)},
     account_id : {"primary", "reserve", "payroll", "operations", "escrow"},
     intent : {"general", "emergency"}]

AuditCalls ==
    [name : {"audit"}, transaction_id : {"TXN-20260103-001"},
     decision : {"APPROVE", "REJECT"},
     agent_outputs : {OutputsVendor, OutputsAltered},
     rationale : {"All checks passed"}]

Logged(call, result) == Append(log, [call |-> call, ret |-> result])

RunLiquidity ==
    /\ Len(log) < MaxCalls
    /\ \E call \in LiquidityCalls :
           LET result == Returned("liquidity", FALSE,
                                  LiquidityCheck(call.amount, call.account_id,
                                                 call.intent, clock))
           IN  /\ tool' = call
               /\ ret' = result
               /\ log' = Logged(call, result)
    /\ UNCHANGED <<pc, request, txn, results, trail, final, clock>>

\* The audit tool reads the clock twice, and the clock may move in between.
RunAudit ==
    /\ Len(log) < MaxCalls
    /\ \E call \in AuditCalls, later \in clock..MaxClock :
           LET result == Returned("audit", ParseOutputs(call.agent_outputs).raised,
                                  AuditLog(call.transaction_id, call.decision,
                                           call.agent_outputs, call.rationale,
                                           clock, later))
           IN  /\ tool' = call
               /\ ret' = result
               /\ log' = Logged(call, result)
               /\ clock' = later
    /\ UNCHANGED <<pc, request, txn, results, trail, final>>

InitCalls ==
    /\ pc = "idle"
    /\ request = ExampleRequest
    /\ txn = request
    /\ results = <<>>
    /\ trail = <<>>
    /\ final = <<>>
    /\ clock = 0
    /\ tool = NoCall
    /\ ret = NoCall
    /\ log = <<>>

NextCalls ==
    \/ RunLiquidity
    \/ RunAudit
    \/ Tick

SpecCalls == InitCalls /\ [][NextCalls]_vars

(***************************************************************************)
(* process_transaction called several times by one caller, each call with *)
(* a dictionary of its own; log keeps what the earlier calls returned.     *)
(***************************************************************************)
RunRequests ==
    {base @@ id :
        base \in [amount : {GBP(7500), GBP(45000)}, sender : {SenderOperations},
                  receiver : {ReceiverAcme}, purpose : {PurposeVendor},
                  timestamp : {MondayNight}, account_id : {"primary"}],
        id \in Optional("transaction_id", {"TXN-20260103-001"})}

\* The caller, having got the final output, calls again with a new dictionary.
NextRequest ==
    /\ pc = "done"
    /\ Len(log) + 1 < MaxCalls
    /\ log' = Logged(request, final)
    /\ \E r \in RunRequests :
           /\ request' = r
           /\ txn' = r
    /\ pc' = "idle"
    /\ results' = <<>>
    /\ trail' = <<>>
    /\ final' = <<>>
    /\ UNCHANGED <<clock, tool, ret>>

InitRuns ==
    /\ pc = "idle"
    /\ request \in RunRequests
    /\ txn = request
    /\ results = <<>>
    /\ trail = <<>>
    /\ final = <<>>
    /\ clock = 0
    /\ tool = NoCall
    /\ ret = NoCall
    /\ log = <<>>

NextRuns ==
    \/ Call
    \/ IntentStage
    \/ RiskStage
    \/ PolicyStage
    \/ TreasuryStage
    \/ DecisionStage
    \/ AuditStage
    \/ Return
    \/ Tick
    \/ NextRequest

SpecRuns == InitRuns /\ [][NextRuns]_vars
(***************************************************************************)
(* Properties                                                              *)
(***************************************************************************)
StageOrder == << "intent", "risk", "policy", "treasury", "decision", "audit" >>

Ran == {trail[i].stage : i \in 1..Len(trail)}

\* C1: in a run of process_transaction the six stages start and complete in
\* the order intent, risk, policy, liquidity (treasury), decision, audit: a stage
\* starts only when every earlier stage has returned, each stage leaves exactly
\* one result, no stage is handed the result of a later stage, and the audit
\* stage runs after the decision stage.
C1_StagesInOrder ==
    /\ Len(trail) <= Len(StageOrder)
    /\ \A i \in 1..Len(trail) :
           /\ trail[i].stage = StageOrder[i]
           /\ trail[i].context \subseteq {StageOrder[j] : j \in 1..(i - 1)}
    /\ DOMAIN results = Ran
    /\ Cardinality(Ran) = Len(trail)
    /\ \A i \in 1..Len(StageOrder) :
           pc = StageOrder[i] => Ran = {StageOrder[j] : j \in 1..(i - 1)}
    /\ ("audit" \in Ran => "decision" \in Ran)
    /\ (pc \in {"return", "done"} => Len(trail) = Len(StageOrder))

C1_Witness ==
    /\ pc = "done"
    /\ Len(trail) = 6
    /\ trail[6].stage = "audit"
    /\ final # <<>>

Invalid(r) == r.amount < 0 \/ "timestamp" \notin DOMAIN r

\* C2 as stated: a negative amount or a missing timestamp ends the call with a
\* validation error before stage 1: no stage runs, and there is no audit record
\* and no final output.
C2_FailsFast ==
    Invalid(request) =>
        /\ trail = <<>>
        /\ "audit" \notin DOMAIN results
        /\ final = <<>>

\* C2 as amended: process_transaction validates nothing.  A record without a
\* timestamp gets the current time as its timestamp before stage 1, a negative
\* amount is passed on as it is, and in both cases all six stages run and the
\* final output with its audit record is returned.
C2_NoValidation ==
    Invalid(request) =>
        /\ pc \in {"idle", "return", "done"} \cup {StageOrder[i] : i \in 1..6}
        /\ pc # "idle" =>
               /\ "timestamp" \in DOMAIN txn
               /\ IF "timestamp" \in DOMAIN request
                  THEN txn.timestamp = request.timestamp
                  ELSE fromisoformat(txn.timestamp).ok
               /\ txn.amount = request.amount
        /\ pc = "done" =>
               /\ Ran = {StageOrder[i] : i \in 1..6}
               /\ final # <<>>
               /\ final.audit_reference.audit_logged
               /\ final.input.amount = request.amount

C2_Witness ==
    /\ pc = "done"
    /\ request.amount < 0
    /\ "timestamp" \notin DOMAIN request
    /\ "timestamp" \in DOMAIN txn
    /\ final # <<>>
    /\ Len(trail) = 6

\* The spending-limit table as the claims give it, in pence.
ClaimedLimit(intent) ==
    CASE intent = "refund" -> GBP(15000)
      [] intent = "vendor" -> GBP(30000)
      [] intent = "payroll" -> GBP(150000)
      [] intent = "investment" -> GBP(100000)
      [] intent = "emergency" -> GBP(50000)
      [] intent = "tax" -> GBP(200000)
      [] intent = "loan" -> GBP(75000)
      [] OTHER -> GBP(5000)

SenderHas(word) == IsSubstring(word, lower(tool.sender))
ReceiverHas(word) == IsSubstring(word, lower(tool.receiver))
ReceiverBlocklisted ==
    ReceiverHas(<<"s","a","n","c","t","i","o","n","e","d">>) \/ ReceiverHas(<<"b","l","a","c","k","l","i","s","t">>) \/ ReceiverHas(<<"b","l","o","c","k","e","d">>)

HasViolation(v) == \E i \in 1..Len(ret.out.violations) : ret.out.violations[i] = v
HasSpendingViolation ==
    \E i \in 1..Len(ret.out.violations) :
        ret.out.violations[i][1] = "Exceeds spending limit"

Count(b) == IF b THEN 1 ELSE 0

\* C3: the policy verdict is decided by six independent checks, each appending
\* its own violation: amount over the intent's limit (5000 for an intent outside
\* the table); amount over 10000 with a sender naming neither "approved" nor
\* "manager"; amount over 50000 with a sender not naming "director"; amount over
\* 100000 (whatever the sender); amount over 200000; a receiver naming
\* "sanctioned", "blacklist" or "blocked".  policy_passed is true exactly when
\* none fired, which is exactly when violations is empty; warnings and urgency
\* play no part; and every amount over 100000 fails.
C3_SixChecks ==
    ret.name = "policy" =>
        LET amount == tool.amount
            overLimit == amount > ClaimedLimit(tool.intent)
            noManager == /\ amount > GBP(10000)
                         /\ ~SenderHas(<<"a","p","p","r","o","v","e","d">>)
                         /\ ~SenderHas(<<"m","a","n","a","g","e","r">>)
            noDirector == amount > GBP(50000) /\ ~SenderHas(<<"d","i","r","e","c","t","o","r">>)
            dualAuth == amount > GBP(100000)
            dailyCap == amount > GBP(200000)
        IN  /\ ret.out.policy_passed =
                   ~(overLimit \/ noManager \/ noDirector \/ dualAuth \/ dailyCap
                       \/ ReceiverBlocklisted)
            /\ ret.out.policy_passed = (ret.out.violations = <<>>)
            /\ overLimit = HasSpendingViolation
            /\ noManager = HasViolation(ManagementViolation)
            /\ noDirector = HasViolation(DirectorViolation)
            /\ dualAuth = HasViolation(DualAuthViolation)
            /\ dailyCap = HasViolation(DailyLimitViolation)
            /\ ReceiverBlocklisted = HasViolation(BlockedReceiverViolation)
            /\ Len(ret.out.violations) =
                   Count(overLimit) + Count(noManager) + Count(noDirector)
                       + Count(dualAuth) + Count(dailyCap) + Count(ReceiverBlocklisted)
            /\ (amount > GBP(100000) => ~ret.out.policy_passed)

C3_Witness ==
    /\ ret.name = "policy"
    /\ tool.amount = GBP(110000)
    /\ tool.intent = "payroll"
    /\ tool.sender = SenderBoard
    /\ tool.receiver = ReceiverAcme
    /\ tool.urgency = "high"
    /\ ret.out.violations = << DualAuthViolation >>
    /\ ret.out.warnings # <<>>
    /\ ~ret.out.policy_passed


\* C4 as stated: called with the amount equal to the intent's limit and a
\* receiver that is not blocklisted, the policy tool passes, whoever sends.
C4_PassesAtLimit ==
    (/\ ret.name = "policy"
     /\ tool.intent \in TableIntents
     /\ tool.amount = ClaimedLimit(tool.intent)
     /\ ~ReceiverBlocklisted)
        => ret.out.policy_passed

\* C4 as amended: at the limit the amount is within the limit and there is no
\* spending-limit violation, but the approval checks still apply: general
\* (5000) passes for every sender; refund, vendor and emergency pass exactly
\* when the sender names "approved" or "manager"; loan and investment exactly
\* when it also names "director"; payroll and tax (over 100000) never pass.
C4_AtLimit ==
    (/\ ret.name = "policy"
     /\ tool.intent \in TableIntents
     /\ tool.amount = ClaimedLimit(tool.intent)
     /\ ~ReceiverBlocklisted)
        => LET manager == SenderHas(<<"a","p","p","r","o","v","e","d">>) \/ SenderHas(<<"m","a","n","a","g","e","r">>)
               director == SenderHas(<<"d","i","r","e","c","t","o","r">>)
           IN  /\ ret.out.amount_within_limit
               /\ ret.out.applicable_limit = tool.amount
               /\ ~HasSpendingViolation
               /\ ret.out.policy_passed =
                      CASE tool.intent = "general" -> TRUE
                        [] tool.intent \in {"refund", "vendor", "emergency"} -> manager
                        [] tool.intent \in {"loan", "investment"} -> manager /\ director
                        [] tool.intent \in {"payroll", "tax"} -> FALSE

C4_Witness ==
    /\ ret.name = "policy"
    /\ tool.intent = "refund"
    /\ tool.amount = GBP(15000)
    /\ tool.sender = SenderOperations
    /\ tool.receiver = ReceiverAcme
    /\ ret.out.amount_within_limit
    /\ ret.out.violations = << ManagementViolation >>
    /\ ~ret.out.policy_passed

\* C5: for every intent, an amount over the applicable limit (one penny over
\* included) fails the policy, is reported as not within the limit and carries
\* the spending-limit violation of that intent; an amount at or under the
\* limit carries no spending-limit violation.
C5_OverLimitFails ==
    ret.name = "policy" =>
        LET limit == ClaimedLimit(tool.intent)
        IN  IF tool.amount > limit
            THEN /\ ~ret.out.policy_passed
                 /\ ~ret.out.amount_within_limit
                 /\ HasViolation(SpendingLimitViolation(tool.intent, limit, tool.amount))
            ELSE /\ ~HasSpendingViolation
                 /\ ret.out.amount_within_limit

C5_Witness ==
    /\ ret.name = "policy"
    /\ tool.intent = "refund"
    /\ tool.amount = GBP(15000) + 1
    /\ tool.sender = SenderBoard
    /\ ret.out.violations =
           << SpendingLimitViolation("refund", GBP(15000), GBP(15000) + 1) >>
    /\ ~ret.out.policy_passed
    /\ ~ret.out.amount_within_limit

\* The weight each tag of risk_factors stands for, in hundredths.
TagWeight(tag) ==
    CASE tag = "very_high_amount" -> 25
      [] tag = "high_amount" -> 15
      [] tag = "elevated_amount" -> 8
      [] tag = "off_hours_transaction" -> 12
      [] tag = "weekend_transaction" -> 8
      [] tag = "invalid_timestamp" -> 5
      [] tag = "suspicious_receiver" -> 20
      [] tag = "unknown_sender_history" -> 10
      [] tag = "new_sender" -> 8
      [] tag = "suspicious_round_amount" -> 5
      [] OTHER -> 10

RECURSIVE TagTotal(_)
TagTotal(tags) ==
    IF tags = <<>> THEN 0 ELSE TagWeight(Head(tags)) + TagTotal(Tail(tags))

Tagged(tag) == \E i \in 1..Len(ret.out.risk_factors) : ret.out.risk_factors[i] = tag

AmountTags == {"very_high_amount", "high_amount", "elevated_amount"}

TagsIn(tags) ==
    {t \in tags : Tagged(t)}

\* C6 as stated: from 100000 on, 100000 itself included, the amount tier is
\* very_high_amount alone.
C6_FromHundredThousand ==
    (ret.name = "risk" /\ tool.amount >= GBP(100000))
        => TagsIn(AmountTags) = {"very_high_amount"}

\* C6 as amended: the top tier starts above 100000.  An amount over 100000 is
\* tagged very_high_amount (0.25) alone; exactly 100000, like every amount over
\* 50000, is tagged high_amount (0.15) alone; over 25000, elevated_amount
\* (0.08) alone; at most one of the three tags is ever present, and the score
\* is the sum of the weights of the tags present.
C6_TiersExclusive ==
    ret.name = "risk" =>
        /\ TagsIn(AmountTags) =
               (IF tool.amount > GBP(100000) THEN {"very_high_amount"}
                ELSE IF tool.amount > GBP(50000) THEN {"high_amount"}
                ELSE IF tool.amount > GBP(25000) THEN {"elevated_amount"}
                ELSE {})
        /\ Cardinality({i \in 1..Len(ret.out.risk_factors) :
                           ret.out.risk_factors[i] \in AmountTags}) <= 1
        /\ ret.out.risk_score = TagTotal(ret.out.risk_factors)

C6_Witness ==
    /\ ret.name = "risk"
    /\ tool.amount = GBP(100000)
    /\ Tagged("high_amount")
    /\ ~Tagged("very_high_amount")
    /\ tool.timestamp = WednesdayAfternoon
    /\ tool.receiver = ReceiverAcme
    /\ tool.intent = "vendor"
    /\ tool.sender_history = HistoryEstablished
    /\ ret.out.risk_score = 20

\* The timestamps of the calls that are not ISO dates and times.
Unparsable == {NotADate, BadDay, BadHour}

TimeTags == {"off_hours_transaction", "weekend_transaction", "invalid_timestamp"}

\* C7: for a timestamp that does not parse, the risk tool's time rule adds the
\* flat 0.05 under the one tag invalid_timestamp, with neither the off-hours
\* nor the weekend tag, the intent tool reports is_off_hours false, and both
\* return instead of raising; for a timestamp that parses, invalid_timestamp
\* is absent.
C7_UnparsableTimestamp ==
    /\ ret.name = "risk" =>
           /\ ~ret.raised
           /\ IF tool.timestamp \in Unparsable
              THEN /\ TagsIn(TimeTags) = {"invalid_timestamp"}
                   /\ Cardinality({i \in 1..Len(ret.out.risk_factors) :
                                      ret.out.risk_factors[i] \in TimeTags}) = 1
                   /\ ret.out.risk_score =
                          5 + TagTotal(SelectSeq(ret.out.risk_factors,
                                                 LAMBDA t : t \notin TimeTags))
              ELSE ~Tagged("invalid_timestamp")
    /\ ret.name = "intent" =>
           /\ ~ret.raised
           /\ tool.timestamp \in Unparsable => ret.out.is_off_hours = FALSE

C7_Witness ==
    /\ ret.name = "risk"
    /\ tool.timestamp = BadDay
    /\ tool.amount = GBP(7500)
    /\ tool.receiver = ReceiverAcme
    /\ tool.intent = "vendor"
    /\ tool.sender_history = HistoryEstablished
    /\ ret.out.risk_factors = << "invalid_timestamp" >>
    /\ ret.out.risk_score = 5
    /\ ~ret.raised

\* C8: whatever the amount, timestamp, receiver, sender history and intent,
\* and however many rules fire, the reported risk_score lies between 0.0 and
\* 1.0.
C8_ScoreInUnitInterval ==
    ret.name = "risk" =>
        /\ ret.out.risk_score >= 0
        /\ ret.out.risk_score <= 100

C8_Witness ==
    /\ ret.name = "risk"
    /\ tool.amount = GBP(110000)
    /\ tool.timestamp = SaturdayNight
    /\ tool.receiver = ReceiverCash
    /\ tool.intent = "emergency"
    /\ tool.sender_history = HistoryUnknown
    /\ ret.out.risk_factor_count = 7
    /\ ret.out.risk_score = 90

\* Scenario A: transaction_1 of main(), at 00:30 on a Saturday, a Sunday or a
\* Monday, with no sender_history given.
ScenarioA(r) ==
    /\ r.amount = GBP(7500)
    /\ r.purpose = PurposeVendor
    /\ r.receiver = ReceiverAcme
    /\ r.account_id = "primary"
    /\ "sender_history" \notin DOMAIN r
    /\ "timestamp" \in DOMAIN r
    /\ r.timestamp \in {SaturdayNight, SundayNight, MondayNight}

\* What scenario A yields whatever the day.
ScenarioAStages ==
    /\ results["intent"].intent = "vendor"
    /\ results["intent"].urgency = "medium"
    /\ results["intent"].is_off_hours
    /\ \E i \in 1..Len(results["risk"].risk_factors) :
           results["risk"].risk_factors[i] = "off_hours_transaction"
    /\ results["policy"].policy_passed
    /\ results["treasury"].sufficient_funds
    /\ results["treasury"].remaining_balance = GBP(172500)

\* C9 as stated: scenario A ends in approve on any date, 2026-01-03 included.
C9_ApprovedAnyDate ==
    (pc = "done" /\ ScenarioA(request)) =>
        /\ ScenarioAStages
        /\ final.final_decision = "approve"

\* C9 as amended: in scenario A (receiver 'Acme Supplies Ltd') the stages
\* yield intent vendor, urgency medium, is_off_hours true, the off-hours risk
\* tag, policy_passed true, sufficient_funds true and remaining_balance 172500
\* on every date; on a Monday the risk score is 0.22 (off-hours 0.12, unknown
\* sender history 0.10), the level low and the decision approve; on a Saturday
\* or a Sunday, 2026-01-03 included, the weekend 0.08 makes it 0.30, the level
\* medium and the decision escalate.
C9_ApprovedOnWeekdays ==
    (pc = "done" /\ ScenarioA(request)) =>
        /\ ScenarioAStages
        /\ IF request.timestamp = MondayNight
           THEN /\ results["risk"].risk_score = 22
                /\ results["risk"].risk_level = "low"
                /\ final.final_decision = "approve"
           ELSE /\ results["risk"].risk_score = 30
                /\ results["risk"].risk_level = "medium"
                /\ final.final_decision = "escalate"

C9_Witness ==
    /\ pc = "done"
    /\ ScenarioA(request)
    /\ request.timestamp = SaturdayNight
    /\ request.sender = SenderOperations
    /\ results["risk"].risk_factors =
           << "off_hours_transaction", "weekend_transaction", "unknown_sender_history" >>
    /\ final.final_decision = "escalate"

\* Scenario B: transaction_2 of main(), whatever its receiver and timestamp.
ScenarioB(r) ==
    /\ r.amount = GBP(45000)
    /\ r.purpose = PurposeRefund
    /\ r.sender = SenderService
    /\ r.account_id = "primary"

\* C10: in scenario B the intent is refund (the refund category comes before
\* the emergency category, which "urgent" also matches) and the urgency high;
\* the policy stage, called with intent refund, records the spending-limit
\* violation against the 15000 refund limit and policy_passed false; and the
\* final decision is reject.
C10_RefundRejected ==
    (pc = "done" /\ ScenarioB(request)) =>
        /\ results["intent"].intent = "refund"
        /\ results["intent"].matched_keywords = << <<"r","e","f","u","n","d">> >>
        /\ Matches(intent_keywords[5].keywords, lower(request.purpose)) # <<>>
        /\ results["intent"].urgency = "high"
        /\ results["policy"].applicable_limit = GBP(15000)
        /\ \E i \in 1..Len(results["policy"].violations) :
               results["policy"].violations[i] =
                   SpendingLimitViolation("refund", GBP(15000), GBP(45000))
        /\ ~results["policy"].policy_passed
        /\ final.final_decision = "reject"

C10_Witness ==
    /\ pc = "done"
    /\ ScenarioB(request)
    /\ "timestamp" \in DOMAIN request
    /\ request.timestamp = SaturdayAfternoon
    /\ request.receiver = ReceiverAcme
    /\ results["intent"].intent = "refund"
    /\ results["risk"].risk_level \in {"low", "medium"}
    /\ final.final_decision = "reject"

\* The calls of one tool that log holds.
LoggedCalls(name) == {i \in DOMAIN log : log[i].call.name = name}

\* C11 as stated: two liquidity calls with the same amount, account_id and
\* intent, made at any two moments, return the same output in every field.
C11_IdenticalOutput ==
    \A i, j \in LoggedCalls("liquidity") :
        log[i].call = log[j].call => log[i].ret.out = log[j].ret.out

\* An output without its check_timestamp.
Verdict(out) == [f \in DOMAIN out \ {"check_timestamp"} |-> out[f]]

\* C11 as amended: two liquidity calls with the same amount, account_id and
\* intent return the same value in every field but check_timestamp, which is
\* the time of the call and so differs when the two moments differ.
C11_IdenticalVerdict ==
    \A i, j \in LoggedCalls("liquidity") :
        /\ DOMAIN log[i].ret.out = DOMAIN log[j].ret.out
        /\ "check_timestamp" \in DOMAIN log[i].ret.out
        /\ log[i].call = log[j].call =>
               Verdict(log[i].ret.out) = Verdict(log[j].ret.out)
        /\ i <= j => log[i].ret.out.check_timestamp <= log[j].ret.out.check_timestamp
        /\ log[i].ret.out.check_timestamp <= clock

C11_Witness ==
    /\ Len(log) = 2
    /\ log[1].call = log[2].call
    /\ log[1].call.name = "liquidity"
    /\ log[1].call.amount = GBP(60000)
    /\ log[1].ret.out.check_timestamp # log[2].ret.out.check_timestamp
    /\ Verdict(log[1].ret.out) = Verdict(log[2].ret.out)

\* C13: the verification hash is a function of the record's stable fields:
\* two audit calls with the same transaction_id, decision, agent_outputs and
\* rationale, at any two moments, give the same verification_hash, and the
\* hash recomputed over a returned record (its transaction id, its decision,
\* its timestamp) is the hash stored in it.
C13_HashReproducible ==
    \A i, j \in LoggedCalls("audit") :
        /\ log[i].call = log[j].call =>
               log[i].ret.out.verification_hash = log[j].ret.out.verification_hash
        /\ log[i].ret.out.verification_hash =
               hash(HashPayload(log[i].call.transaction_id, log[i].call.decision,
                                log[i].ret.out.record_timestamp))

\* C14: for one transaction_id and one decision, two audit calls whose
\* agent_outputs differ in the content of a stage output give different
\* verification hashes.
C14_TamperDetected ==
    \A i, j \in LoggedCalls("audit") :
        (/\ log[i].call.transaction_id = log[j].call.transaction_id
         /\ log[i].call.decision = log[j].call.decision
         /\ log[i].call.agent_outputs # log[j].call.agent_outputs)
            => log[i].ret.out.verification_hash # log[j].ret.out.verification_hash

\* C15 as stated: when process_transaction has returned, the caller's
\* dictionary has the keys and values it had before the call.
C15_InputUnchanged ==
    pc = "done" => txn = request

\* C15 as amended: a dictionary that has a timestamp is left as it was; one
\* without a timestamp is changed in place, gaining the key timestamp with the
\* time of the call as an ISO text, its other keys and values as before; and
\* the input of the final output is that dictionary.
C15_OnlyTimestampAdded ==
    /\ pc # "idle" =>
           IF "timestamp" \in DOMAIN request
           THEN txn = request
           ELSE /\ DOMAIN txn = DOMAIN request \cup {"timestamp"}
                /\ \A k \in DOMAIN request : txn[k] = request[k]
                /\ \E c \in 0..clock : txn.timestamp = NowText(c)
    /\ pc = "done" => final.input = txn

C15_Witness ==
    /\ pc = "done"
    /\ request.amount = GBP(7500)
    /\ "timestamp" \notin DOMAIN request
    /\ "transaction_id" \in DOMAIN request
    /\ txn # request
    /\ txn.timestamp = NowText(1)
    /\ final.input.timestamp = NowText(1)

\* The balances as the claim gives them, in pence.
ClaimedBalance(account_id) ==
    CASE account_id = "primary" -> GBP(180000)
      [] account_id = "reserve" -> GBP(50000)
      [] account_id = "payroll" -> GBP(200000)
      [] account_id = "operations" -> GBP(75000)
      [] OTHER -> GBP(150000)

\* C16: the liquidity tool only reads the ledger.  After any calls, with any
\* amounts and verdicts, a call reports the account's balance of the table
\* (150000 for an id the table does not have, without raising), and its
\* verdict is the one these arguments give on the untouched ledger.
C16_LedgerReadOnly ==
    \A i \in LoggedCalls("liquidity") :
        LET call == log[i].call
            out == log[i].ret.out
            balance == ClaimedBalance(call.account_id)
        IN  /\ ~log[i].ret.raised
            /\ out.current_balance = balance
            /\ out.remaining_balance = balance - call.amount
            /\ out.sufficient_funds = (balance - call.amount >= GBP(25000))
            /\ out.financially_viable =
                   (out.sufficient_funds /\ call.amount <= GBP(75000))
            /\ \A j \in LoggedCalls("liquidity") :
                   log[j].call.account_id = call.account_id =>
                       log[j].ret.out.current_balance = out.current_balance

C16_Witness ==
    /\ Len(log) = 2
    /\ log[1].call.name = "liquidity"
    /\ log[1].call.account_id = "escrow"
    /\ log[1].call.amount = GBP(60000)
    /\ log[1].ret.out.financially_viable
    /\ log[2].call.name = "liquidity"
    /\ log[2].call.account_id = "escrow"
    /\ log[2].call.amount = GBP(160000)
    /\ log[2].ret.out.current_balance = GBP(150000)
    /\ ~log[2].ret.out.sufficient_funds

\* The transaction ids of the final outputs of the calls that were not given
\* one: the earlier calls, and the present call once it has returned.
GeneratedIds ==
    [i \in {j \in DOMAIN log : "transaction_id" \notin DOMAIN log[j].call}
        |-> log[i].ret.transaction_id]
    @@ (IF pc = "done" /\ "transaction_id" \notin DOMAIN request
        THEN (Len(log) + 1) :> final.transaction_id ELSE <<>>)

\* C17: two calls of process_transaction that are given no transaction_id
\* never have the same transaction_id in their final outputs.
C17_UniqueIds ==
    \A i, j \in DOMAIN GeneratedIds :
        i # j => GeneratedIds[i] # GeneratedIds[j]

\* The categories in the order the claim gives.
ClaimedOrder ==
    << "refund", "payroll", "vendor", "investment", "emergency", "tax", "loan" >>

\* The keywords of the i-th category that occur in the lower-cased purpose.
Hits(i) ==
    SelectSeq(intent_keywords[i].keywords,
              LAMBDA kw : IsSubstring(kw, lower(tool.purpose)))

\* C18: the categories are scanned in the order refund, payroll, vendor,
\* investment, emergency, tax, loan; the intent is the first category with a
\* keyword occurring in the lower-cased purpose, and matched_keywords holds the
\* hits of that category only; the intent is general, with no matched
\* keywords, exactly when no keyword of any category occurs.
C18_FirstCategoryWins ==
    ret.name = "intent" =>
        /\ [i \in 1..Len(intent_keywords) |-> intent_keywords[i].intent] = ClaimedOrder
        /\ (ret.out.intent = "general") = (\A i \in 1..7 : Hits(i) = <<>>)
        /\ ret.out.intent = "general" => ret.out.matched_keywords = <<>>
        /\ \A i \in 1..7 :
               (Hits(i) # <<>> /\ \A j \in 1..(i - 1) : Hits(j) = <<>>)
                   => /\ ret.out.intent = ClaimedOrder[i]
                      /\ ret.out.matched_keywords = Hits(i)

C18_Witness ==
    /\ ret.name = "intent"
    /\ tool.purpose = PurposeVat
    /\ Hits(1) = << <<"r","e","t","u","r","n">> >>
    /\ Hits(6) = << <<"v","a","t">>, <<"h","m","r","c">> >>
    /\ ret.out.intent = "refund"
    /\ ret.out.matched_keywords = << <<"r","e","t","u","r","n">> >>

\* C19: the amount rule decides the urgency before the keyword rule: high for
\* every amount over 50000 and low for every amount under 1000, whatever the
\* purpose; from 1000 to 50000, high exactly when the purpose has one of
\* urgent, emergency, immediate, asap, critical, and medium otherwise.
C19_AmountBeforeKeyword ==
    ret.name = "intent" =>
        LET text == lower(tool.purpose)
            keyword == \E kw \in {<<"u","r","g","e","n","t">>, <<"e","m","e","r","g","e","n","c","y">>, <<"i","m","m","e","d","i","a","t","e">>,
                                  <<"a","s","a","p">>, <<"c","r","i","t","i","c","a","l">>} : IsSubstring(kw, text)
        IN  /\ tool.amount > GBP(50000) => ret.out.urgency = "high"
            /\ tool.amount < GBP(1000) => ret.out.urgency = "low"
            /\ (tool.amount >= GBP(1000) /\ tool.amount <= GBP(50000)) =>
                   ret.out.urgency = (IF keyword THEN "high" ELSE "medium")

C19_Witness ==
    /\ ret.name = "intent"
    /\ tool.purpose = PurposeLoan
    /\ tool.amount = GBP(1000) - 1
    /\ ret.out.intent = "emergency"
    /\ ret.out.urgency = "low"

\* C20 as stated: the bucket is low exactly under 5000, medium exactly from
\* 5000 to 25000, both included, and high exactly over 25000.
C20_MediumFromFiveThousand ==
    ret.name = "intent" =>
        ret.out.amount_category =
            (IF tool.amount < GBP(5000) THEN "low"
             ELSE IF tool.amount <= GBP(25000) THEN "medium"
             ELSE "high")

\* C20 as amended: the bucket is low exactly when the amount is at most 5000,
\* 5000 itself included; medium exactly when it is over 5000 and at most
\* 25000; high exactly when it is over 25000.
C20_MediumAboveFiveThousand ==
    ret.name = "intent" =>
        ret.out.amount_category =
            (IF tool.amount <= GBP(5000) THEN "low"
             ELSE IF tool.amount <= GBP(25000) THEN "medium"
             ELSE "high")

C20_Witness ==
    /\ ret.name = "intent"
    /\ tool.amount = GBP(5000)
    /\ ret.out.amount_category = "low"

\* The timestamps of the calls by what they are: 00:30 is off-hours, 3 and 4
\* January 2026 are a Saturday and a Sunday.
OffHoursStamps == {SaturdayNight, SundayNight, MondayNight}
WeekendStamps == {SaturdayNight, SundayNight, SaturdayAfternoon}

When(condition, tag) == IF condition THEN << tag >> ELSE <<>>

\* The tags the rules of the claim give for the arguments of the call, group
\* by group.
ExpectedTags ==
    LET amount == tool.amount
        history == lower(tool.sender_history)
    IN  (IF amount > GBP(100000) THEN << "very_high_amount" >>
         ELSE IF amount > GBP(50000) THEN << "high_amount" >>
         ELSE IF amount > GBP(25000) THEN << "elevated_amount" >>
         ELSE <<>>)
        \o (IF tool.timestamp \in Unparsable THEN << "invalid_timestamp" >>
            ELSE When(tool.timestamp \in OffHoursStamps, "off_hours_transaction")
                 \o When(tool.timestamp \in WeekendStamps, "weekend_transaction"))
        \o When(\E i \in 1..Len(suspicious_patterns) :
                    ReceiverHas(suspicious_patterns[i]), "suspicious_receiver")
        \o (IF history = <<"u","n","k","n","o","w","n">> THEN << "unknown_sender_history" >>
            ELSE When(IsSubstring(<<"n","e","w">>, history), "new_sender"))
        \o (CASE tool.intent = "emergency" -> << "high_risk_intent_emergency" >>
              [] tool.intent = "general" -> << "high_risk_intent_general" >>
              [] tool.intent = "loan" -> << "high_risk_intent_loan" >>
              [] OTHER -> <<>>)
        \o When(amount % GBP(10000) = 0 /\ amount >= GBP(10000),
                "suspicious_round_amount")

\* C21: the risk score is the sum of the weights of the rules that fired, one
\* rule at most per group except that off-hours and weekend may both fire, the
\* groups being independent of one another; and risk_factors lists the tags of
\* exactly those rules in the order amount, time, receiver, sender history,
\* intent, round amount.
C21_SumOfFiredRules ==
    ret.name = "risk" =>
        /\ ret.out.risk_factors = ExpectedTags
        /\ ret.out.risk_factor_count = Len(ExpectedTags)
        /\ ret.out.risk_score = TagTotal(ExpectedTags)

C21_Witness ==
    /\ ret.name = "risk"
    /\ tool.amount = GBP(45000)
    /\ tool.timestamp = SaturdayAfternoon
    /\ tool.receiver = ReceiverCash
    /\ tool.sender_history = HistoryNew
    /\ tool.intent = "loan"
    /\ ret.out.risk_factors =
           << "elevated_amount", "weekend_transaction", "suspicious_receiver",
              "new_sender", "high_risk_intent_loan" >>
    /\ ret.out.risk_score = 54

\* The level the thresholds 0.25 / 0.50 / 0.75 give for a score in hundredths.
LevelOf(score) ==
    IF score < 25 THEN "low"
    ELSE IF score < 50 THEN "medium"
    ELSE IF score < 75 THEN "high"
    ELSE "critical"

\* C22: in every output of the risk tool the level is the one the thresholds
\* 0.25 / 0.50 / 0.75 give for the score; the recommendation is REJECT exactly
\* for critical, ESCALATE for high, PROCEED for medium and APPROVE for low; and
\* requires_additional_review is true exactly for high and critical.
C22_LevelAgreesWithScore ==
    ret.name = "risk" =>
        /\ ret.out.risk_level = LevelOf(ret.out.risk_score)
        /\ ret.out.recommendation =
               (CASE ret.out.risk_level = "critical" -> "REJECT - Too risky"
                  [] ret.out.risk_level = "high" -> "ESCALATE - Human review required"
                  [] ret.out.risk_level = "medium" -> "PROCEED - Acceptable risk"
                  [] ret.out.risk_level = "low" -> "APPROVE - Low risk")
        /\ ret.out.requires_additional_review =
               (ret.out.risk_level \in {"high", "critical"})

\* The sum of the contributions before the cap, for the arguments of the call.
UncappedSum ==
    SumWeights(RiskFactors(tool.amount, tool.receiver, tool.intent,
                           tool.timestamp, tool.sender_history))

\* C23: the rules of a group excluding one another, the sum of the
\* contributions before the cap is never over 0.90, the cap at 1.0 leaves it
\* as it is, and so the reported score is never over 0.90.
C23_SumAtMostNinety ==
    ret.name = "risk" =>
        /\ FGe(Lit(90), UncappedSum)
        /\ CapScore(UncappedSum) = UncappedSum
        /\ ret.out.risk_score = Round2(UncappedSum)
        /\ ret.out.risk_score <= 90
        /\ Len(ret.out.risk_factors) <= 7

C23_Witness ==
    /\ ret.name = "risk"
    /\ UncappedSum = Lit(90)
    /\ ret.out.risk_score = 90
    /\ ret.out.risk_level = "critical"
    /\ ret.out.recommendation = "REJECT - Too risky"
    /\ tool.intent = "loan"
    /\ tool.sender_history = <<"u","n","k","n","o","w","n">>

\* C24: the confidence is 0.95 exactly when a keyword of some category
\* occurs in the purpose, which is exactly when the intent is not general,
\* and 0.50 exactly when the intent is general; 0.60 is never returned.
C24_NeverSixty ==
    ret.name = "intent" =>
        LET matched == \E i \in 1..7 : Hits(i) # <<>>
        IN  /\ (ret.out.confidence = 95) = matched
            /\ matched = (ret.out.intent # "general")
            /\ matched = (ret.out.matched_keywords # <<>>)
            /\ (ret.out.confidence = 50) = (ret.out.intent = "general")
            /\ ret.out.confidence \in {50, 95}

C24_Witness ==
    /\ ret.name = "intent"
    /\ tool.purpose = PurposeParty
    /\ ret.out.intent = "general"
    /\ ret.out.matched_keywords = <<>>
    /\ ret.out.confidence = 50

\* C25: financially_viable, which is sufficient_funds and within_daily_limit
\* and within_budget (reserve 25000, daily limit 75000, monthly budget
\* 150000), is true exactly when concerns is empty; liquidity_health is
\* insufficient exactly when sufficient_funds is false; reserve_cushion is
\* never negative; and within_budget never decides, an amount within the daily
\* limit being within the budget.
C25_ViableIffNoConcerns ==
    ret.name = "liquidity" =>
        LET out == ret.out
            remaining == ClaimedBalance(tool.account_id) - tool.amount
        IN  /\ out.sufficient_funds = (remaining >= GBP(25000))
            /\ out.within_daily_limit = (tool.amount <= GBP(75000))
            /\ out.within_budget = (tool.amount <= GBP(150000))
            /\ out.financially_viable =
                   (out.sufficient_funds /\ out.within_daily_limit /\ out.within_budget)
            /\ out.financially_viable = (out.concerns = <<>>)
            /\ (out.liquidity_health = "insufficient") = ~out.sufficient_funds
            /\ out.reserve_cushion >= 0
            /\ out.within_daily_limit => out.within_budget
            /\ out.financially_viable =
                   (out.sufficient_funds /\ out.within_daily_limit)

C25_Witness ==
    /\ ret.name = "liquidity"
    /\ tool.account_id = "primary"
    /\ tool.amount = GBP(155000) + 1
    /\ ~ret.out.sufficient_funds
    /\ ~ret.out.within_daily_limit
    /\ ~ret.out.within_budget
    /\ Len(ret.out.concerns) = 2
    /\ ret.out.reserve_cushion = 0
    /\ ret.out.liquidity_health = "insufficient"
    /\ ~ret.out.financially_viable

\* ---------------------------------------------------------------------------
\* C26.  AuditLogTool never raises and reports the record as logged and
\* compliant, with the audit id "AUDIT-" + transaction_id, whatever it is
\* given.  A decision outside APPROVE / REJECT / ESCALATE only leaves
\* final_decision_made false, an empty rationale only leaves
\* decision_documented false, agent_outputs that are not JSON are kept as
\* {"raw": ...}, and a stage name missing from the outputs only leaves that
\* stage's completion check false; complete_audit_trail and
\* all_agents_consulted are true all the same.
AuditRecordOf(call) ==
    AuditRecord(call.transaction_id, call.decision, call.agent_outputs,
                call.rationale, 0, 0)

NotJson == {OutputsTruncated, OutputsProse}

StageChecks(audit_trail) ==
    << audit_trail.intent_analysis_completed, audit_trail.risk_assessment_completed,
       audit_trail.policy_validation_completed, audit_trail.liquidity_check_completed >>

====
